---- MODULE Spec2Model ----
(***************************************************************************)
(* A model of analisi_network_script_4.0.py: the row filter, the two       *)
(* lookup indices, the row enrichers and the streaming transform driver    *)
(* run_user_python_code.                                                   *)
(*                                                                         *)
(* Text is a sequence of one-character strings, so that strip(), lower(),  *)
(* `in`, split and the port regex are computed character by character.     *)
(* Python's None is the value None below; a row is a function from the     *)
(* column names it holds to text or None.                                  *)
(***************************************************************************)
EXTENDS Integers, Sequences, FiniteSets, TLC

VARIABLES
    op,     \* which function a function-level specification exercises
    arg,    \* the arguments it was given
    ret     \* <<>> before the call, <<value>> once it has returned

fnvars == <<op, arg, ret>>

\* One call of run_user_python_code and what it can touch
VARIABLES
    pc,                     \* the statement the run has reached
    error,                  \* the exception that ended the run, <<>> if none
    selected_file, selected_excel, server_filter, wave_filter,   \* arguments
    input_file,             \* the CSV at selected_file: [header, lines]
    outputs,                \* published files of out_dir: timestamp -> content
    temp_files,             \* temporary files of out_dir, the run's own last
    now,                    \* the clock, in seconds
    SERVIZIO_TO_IPS, LOCATION_TO_SUBNETS,                        \* module globals
    ip_to_service, subnet_index, final_path,
    processed, next_step, last_ui_progress, last_ui_log,
    outbound_count, inbound_count,
    fieldnames, total_rows_to_process,
    pos,                    \* data rows the current reader has consumed
    log,                    \* the lines handed to log_put, in order
    progress,               \* the values handed to progress_set, in order
    before                  \* history: input_file and outputs when the run began,
                            \* and the clock and the row at each push and row line

arguments == <<selected_file, selected_excel, server_filter, wave_filter>>
globals == <<SERVIZIO_TO_IPS, LOCATION_TO_SUBNETS>>
indices == <<ip_to_service, subnet_index, final_path>>
throttle == <<processed, next_step, last_ui_progress, last_ui_log>>
counters == <<outbound_count, inbound_count>>
reader == <<fieldnames, total_rows_to_process, pos>>
callbacks == <<log, progress>>
drivervars == <<pc, error, arguments, input_file, outputs, temp_files, now, globals,
                indices, throttle, counters, reader, callbacks, before>>

\* The hosting application: the fields of App the run button, the worker
\* thread and the queue drain touch
VARIABLES
    is_running,             \* App.is_running
    run_btn,                \* the state of App.run_btn: "normal" or "disabled"
    status_chip,            \* the text of App.status_chip
    ui_queue,               \* App.ui_queue: the <<key, payload>> messages waiting
    threads,                \* the worker threads started so far: [at, put]
    main                    \* the main thread: "idle", or "draining" in _drain_queue

app == <<is_running, run_btn, status_chip, ui_queue, threads, main>>
runvars == <<drivervars, app>>
vars == <<fnvars, runvars>>

-----------------------------------------------------------------------------
(* Text primitives of Python used by the script *)

None == <<"<None>">>

UpperLetters == <<"A","B","C","D","E","F","G","H","I","J","K","L","M",
                  "N","O","P","Q","R","S","T","U","V","W","X","Y","Z">>
LowerLetters == <<"a","b","c","d","e","f","g","h","i","j","k","l","m",
                  "n","o","p","q","r","s","t","u","v","w","x","y","z">>
DigitChars == <<"0","1","2","3","4","5","6","7","8","9">>

IsDigit(c) == \E i \in 1..10 : DigitChars[i] = c
IsSpace(c) == c = " "

LowerChar(c) ==
    IF \E i \in 1..26 : UpperLetters[i] = c
    THEN LowerLetters[CHOOSE i \in 1..26 : UpperLetters[i] = c]
    ELSE c

\* str.lower()
Lower(s) == [i \in 1..Len(s) |-> LowerChar(s[i])]

\* str.strip()
Strip(s) ==
    LET keep == {i \in 1..Len(s) : ~IsSpace(s[i])}
    IN  IF keep = {} THEN <<>>
        ELSE SubSeq(s, CHOOSE i \in keep : \A j \in keep : i <= j,
                       CHOOSE i \in keep : \A j \in keep : j <= i)

\* sub in s
Contains(sub, s) ==
    \E i \in 1..(Len(s) - Len(sub) + 1) : SubSeq(s, i, i + Len(sub) - 1) = sub

\* value or ""
OrEmpty(v) == IF v = None THEN <<>> ELSE v

\* row.get(col)
Get(row, col) == IF col \in DOMAIN row THEN row[col] ELSE None

\* row[col] = v
Put(row, col, v) ==
    [c \in (DOMAIN row) \cup {col} |-> IF c = col THEN v ELSE row[c]]

\* str(n) of a non-negative integer
RECURSIVE IntToStr(_)
IntToStr(n) ==
    IF n < 10 THEN <<DigitChars[n + 1]>>
    ELSE IntToStr(n \div 10) \o <<DigitChars[(n % 10) + 1]>>

DigitValue(c) == (CHOOSE i \in 1..10 : DigitChars[i] = c) - 1

\* int(s) of a text of decimal digits
RECURSIVE ParseDec(_)
ParseDec(s) ==
    IF Len(s) = 0 THEN 0
    ELSE 10 * ParseDec(SubSeq(s, 1, Len(s) - 1)) + DigitValue(s[Len(s)])

AllDigits(s) == Len(s) > 0 /\ \A i \in 1..Len(s) : IsDigit(s[i])

\* s.split(sep) for a one-character separator
RECURSIVE SplitOn(_, _)
SplitOn(s, sep) ==
    IF \E i \in 1..Len(s) : s[i] = sep
    THEN LET k == CHOOSE i \in 1..Len(s) :
                      s[i] = sep /\ \A j \in 1..(i - 1) : s[j] # sep
         IN  <<SubSeq(s, 1, k - 1)>> \o SplitOn(SubSeq(s, k + 1, Len(s)), sep)
    ELSE <<s>>

-----------------------------------------------------------------------------
(* ipaddress: IPv4 addresses are <<o1, o2, o3, o4>>, networks <<address, prefixlen>> *)

IsOctetText(p) ==
    /\ Len(p) \in 1..3
    /\ \A i \in 1..Len(p) : IsDigit(p[i])
    /\ (Len(p) > 1 => p[1] # "0")
    /\ ParseDec(p) <= 255

\* ipaddress.IPv4Address(text); None stands for ValueError
IPv4Address(text) ==
    LET parts == SplitOn(text, ".")
    IN  IF Len(parts) = 4 /\ \A i \in 1..4 : IsOctetText(parts[i])
        THEN [i \in 1..4 |-> ParseDec(parts[i])]
        ELSE None

\* the number of leading bits of octet i (1..4) a prefix of length n covers
OctetBits(n, i) ==
    IF n >= 8 * i THEN 8 ELSE IF n <= 8 * (i - 1) THEN 0 ELSE n - 8 * (i - 1)

\* the address with the bits outside the prefix cleared
MaskAddress(addr, n) ==
    [i \in 1..4 |-> (addr[i] \div (2 ^ (8 - OctetBits(n, i)))) * (2 ^ (8 - OctetBits(n, i)))]

\* ipaddress.ip_network(text, strict=False) for the texts `a.b.c.d` and
\* `a.b.c.d/len` (a netmask after the slash is not modelled and no input
\* holds one); None stands for ValueError
ip_network(text) ==
    LET parts == SplitOn(text, "/")
        addr == IPv4Address(parts[1])
    IN  IF Len(parts) > 2 \/ addr = None THEN None
        ELSE IF Len(parts) = 1 THEN <<addr, 32>>
        ELSE IF AllDigits(parts[2]) /\ ParseDec(parts[2]) <= 32
             THEN <<MaskAddress(addr, ParseDec(parts[2])), ParseDec(parts[2])>>
             ELSE None

prefixlen(network) == network[2]

\* ip_obj in network
InNetwork(ip_obj, network) == MaskAddress(ip_obj, prefixlen(network)) = network[1]

-----------------------------------------------------------------------------
(* Lookup indices.  A mapping (dict) is the sequence of its items in       *)
(* insertion order, <<key, list>>, with distinct keys.                     *)

\* the (network, location) pairs of one location, invalid CIDR text skipped
RECURSIVE CompileCidrs(_, _)
CompileCidrs(location, cidrs) ==
    IF cidrs = <<>> THEN <<>>
    ELSE LET network == ip_network(Strip(Head(cidrs)))
         IN  (IF network = None THEN <<>> ELSE << <<network, location>> >>)
             \o CompileCidrs(location, Tail(cidrs))

RECURSIVE CompileSubnets(_)
CompileSubnets(subnets_by_location) ==
    IF subnets_by_location = <<>> THEN <<>>
    ELSE CompileCidrs(Head(subnets_by_location)[1], Head(subnets_by_location)[2])
         \o CompileSubnets(Tail(subnets_by_location))

\* where list.sort(key=prefixlen, reverse=True), a stable sort, leaves one
\* more item: behind every item whose prefix is at least as long
\* a slip that puts an item before the items of its own prefix length
InsertByPrefixUnstable(sorted, item) ==
    LET ahead == {i \in 1..Len(sorted) : prefixlen(sorted[i][1]) > prefixlen(item[1])}
        k == Cardinality(ahead)
    IN  SubSeq(sorted, 1, k) \o <<item>> \o SubSeq(sorted, k + 1, Len(sorted))

InsertByPrefix(sorted, item) ==
    LET ahead == {i \in 1..Len(sorted) : prefixlen(sorted[i][1]) >= prefixlen(item[1])}
        k == Cardinality(ahead)
    IN  SubSeq(sorted, 1, k) \o <<item>> \o SubSeq(sorted, k + 1, Len(sorted))

RECURSIVE SortByPrefix(_)
SortByPrefix(compiled) ==
    IF compiled = <<>> THEN <<>>
    ELSE InsertByPrefix(SortByPrefix(SubSeq(compiled, 1, Len(compiled) - 1)),
                        compiled[Len(compiled)])

build_subnet_index(subnets_by_location) ==
    SortByPrefix(CompileSubnets(subnets_by_location))

find_location_for_ip(ip_str, net_index) ==
    LET text == Strip(OrEmpty(ip_str))
        ip_obj == IPv4Address(text)
        hits == {i \in 1..Len(net_index) : InNetwork(ip_obj, net_index[i][1])}
    IN  IF text = <<>> THEN None
        ELSE IF ip_obj = None THEN None
        ELSE IF hits = {} THEN None
        ELSE net_index[CHOOSE i \in hits : \A j \in hits : i <= j][2]

\* index[str(ip).strip()] = service, in the order of the mapping: the last
\* service that lists an address keeps it
\* a slip that keys the index by the address as written
RECURSIVE IndexIpsUnstripped(_, _, _)
IndexIpsUnstripped(index, service, ips) ==
    IF ips = <<>> THEN index
    ELSE IndexIpsUnstripped(Put(index, Head(ips), service), service, Tail(ips))

RECURSIVE IndexIps(_, _, _)
IndexIps(index, service, ips) ==
    IF ips = <<>> THEN index
    ELSE IndexIps(Put(index, Strip(Head(ips)), service), service, Tail(ips))

RECURSIVE IndexServices(_, _)
IndexServices(index, service_map) ==
    IF service_map = <<>> THEN index
    ELSE IndexServices(IndexIps(index, Head(service_map)[1], Head(service_map)[2]),
                       Tail(service_map))

build_ip_to_service_index(service_map) == IndexServices(<<>>, service_map)

-----------------------------------------------------------------------------
(* Row enrichment *)

UNKNOWN == <<"u","n","k","n","o","w","n">>
SKIP_SHARED == <<"s","k","i","p"," ","s","h","a","r","e","d"," ",
                 "s","e","r","v","i","c","e","s">>
RISC_INTERNET == <<"r","i","s","c","-","u","n","k","n","o","w","n","-",
                   "i","n","t","e","r","n","e","t">>
RISC_PRIVATE == <<"r","i","s","c","-","u","n","k","n","o","w","n","-",
                  "p","r","i","v","a","t","e">>
PUBLIC == <<"P","u","b","l","i","c">>
PRIVATE == <<"P","r","i","v","a","t","e">>

LOC_NORMALIZATION == << <<RISC_INTERNET, PUBLIC>>, <<RISC_PRIVATE, PRIVATE>> >>

PORT_COMMENTS == << <<25, <<"S","M","T","P">> >>,
                    <<8080, <<"P","r","o","x","y">> >>,
                    <<10065, <<"Z","s","c","a","l","e","r">> >>,
                    <<383, <<"R","u","l","e"," ","O","M","I">> >> >>

\* a slip that searches the digits without the two lookarounds
port_matches_anywhere(target_port, port_value) ==
    Contains(IntToStr(target_port), OrEmpty(port_value))

\* re.search(rf'(?<!\d){target_port}(?!\d)', str(port_value or ""))
port_matches(target_port, port_value) ==
    LET port_str == OrEmpty(port_value)
        target == IntToStr(target_port)
        n == Len(target)
    IN  \E i \in 1..(Len(port_str) - n + 1) :
            /\ SubSeq(port_str, i, i + n - 1) = target
            /\ (i = 1 \/ ~IsDigit(port_str[i - 1]))
            /\ (i + n - 1 = Len(port_str) \/ ~IsDigit(port_str[i + n]))

\* ip_index.get(ip, "unknown")
ServiceOf(ip_index, ip) ==
    IF ip \in DOMAIN ip_index THEN ip_index[ip] ELSE UNKNOWN

enrich_row_with_services(row, ip_index) ==
    LET src_ip == Strip(OrEmpty(Get(row, "src_addr")))
        dest_ip == Strip(OrEmpty(Get(row, "dest_addr")))
    IN  Put(Put(row, "src_service", ServiceOf(ip_index, src_ip)),
            "dest_service", ServiceOf(ip_index, dest_ip))

\* a slip that fills the column with "" when nothing was found
SetOrDefault(row, col, loc) == Put(row, col, OrEmpty(loc))

\* if loc is not None: row[col] = loc
SetIfFound(row, col, loc) == IF loc # None THEN Put(row, col, loc) ELSE row

\* lines 289-299: the two lookups
LookupLocations(row, net_index) ==
    LET src_ip == Strip(OrEmpty(Get(row, "src_addr")))
        dest_ip == Strip(OrEmpty(Get(row, "dest_addr")))
    IN  SetIfFound(SetIfFound(row, "src_loc", find_location_for_ip(src_ip, net_index)),
                   "dest_loc", find_location_for_ip(dest_ip, net_index))

\* LOC_NORMALIZATION.get(key)
NormalizedLabel(key) ==
    IF \E i \in 1..Len(LOC_NORMALIZATION) : LOC_NORMALIZATION[i][1] = key
    THEN LOC_NORMALIZATION[CHOOSE i \in 1..Len(LOC_NORMALIZATION) :
                               LOC_NORMALIZATION[i][1] = key][2]
    ELSE None

\* a slip that looks the value up as it stands
NormalizeLocationExact(row, col) ==
    IF Get(row, col) # None /\ NormalizedLabel(Get(row, col)) # None
    THEN Put(row, col, NormalizedLabel(Get(row, col)))
    ELSE row

\* lines 302-307 for one column
NormalizeLocation(row, col) ==
    LET current == Strip(OrEmpty(Get(row, col)))
    IN  IF current # <<>> /\ NormalizedLabel(Lower(current)) # None
        THEN Put(row, col, NormalizedLabel(Lower(current)))
        ELSE row

enrich_row_with_locations(row, net_index) ==
    NormalizeLocation(NormalizeLocation(LookupLocations(row, net_index), "src_loc"),
                      "dest_loc")

\* the label of the first rule of PORT_COMMENTS that matches, "" when none does
PortComment(dest_port) ==
    LET hits == {i \in 1..Len(PORT_COMMENTS) : port_matches(PORT_COMMENTS[i][1], dest_port)}
    IN  IF hits = {} THEN <<>>
        ELSE PORT_COMMENTS[CHOOSE i \in hits : \A j \in hits : i <= j][2]

\* the comment enrich_row_with_comment decides on
CommentFor(row) ==
    LET src_service == Lower(Strip(OrEmpty(Get(row, "src_service"))))
        dest_service == Lower(Strip(OrEmpty(Get(row, "dest_service"))))
    IN  IF src_service # UNKNOWN \/ dest_service # UNKNOWN
        THEN SKIP_SHARED
        ELSE PortComment(Get(row, "dest_port"))

\* a slip that assigns the column whatever the comment is
enrich_row_with_any_comment(row) == Put(row, "COMMENTO", CommentFor(row))

enrich_row_with_comment(row) ==
    IF CommentFor(row) # <<>> THEN Put(row, "COMMENTO", CommentFor(row)) ELSE row

-----------------------------------------------------------------------------
(* Row filter *)

\* a slip that ignores the case-sensitivity flag
wave_match_any_case(row, wave, filter_columns, case_sensitive) ==
    \E i \in 1..Len(filter_columns) :
        Contains(Lower(wave), Lower(OrEmpty(Get(row, filter_columns[i]))))

wave_match(row, wave, filter_columns, case_sensitive) ==
    IF case_sensitive
    THEN \E i \in 1..Len(filter_columns) :
            Contains(wave, OrEmpty(Get(row, filter_columns[i])))
    ELSE \E i \in 1..Len(filter_columns) :
            Contains(Lower(wave),
                     Lower(OrEmpty(Get(row, filter_columns[i]))))

\* (row.get(col) or "").strip().lower()
NameKey(row, col) == Lower(Strip(OrEmpty(Get(row, col))))

server_match(row, servers) ==
    \E i \in 1..Len(servers) :
        \/ Contains(Lower(servers[i]), NameKey(row, "src_name"))
        \/ Contains(Lower(servers[i]), NameKey(row, "dest_name"))

\* a slip that compares the names as written
self_talking_exact(row) ==
    /\ OrEmpty(Get(row, "src_name")) # <<>>
    /\ OrEmpty(Get(row, "dest_name")) # <<>>
    /\ OrEmpty(Get(row, "src_name")) = OrEmpty(Get(row, "dest_name"))

self_talking(row) ==
    /\ NameKey(row, "src_name") # <<>>
    /\ NameKey(row, "dest_name") # <<>>
    /\ NameKey(row, "src_name") = NameKey(row, "dest_name")

should_include_row(row, wave, servers, filter_columns, case_sensitive) ==
    IF wave # <<>> /\ ~wave_match(row, wave, filter_columns, case_sensitive)
    THEN FALSE
    ELSE IF servers # <<>> /\ ~server_match(row, servers)
    THEN FALSE
    ELSE IF self_talking(row)
    THEN FALSE
    ELSE TRUE

-----------------------------------------------------------------------------
(* The driver at rest, for the function-level specifications *)

\* App.__init__: nothing runs, the button can be clicked, the queue is empty
AppIdle ==
    /\ is_running = FALSE /\ run_btn = "normal" /\ status_chip = "Pronto"
    /\ ui_queue = <<>> /\ threads = <<>> /\ main = "idle"

NoRun ==
    /\ AppIdle
    /\ pc = "idle" /\ error = <<>>
    /\ selected_file = "" /\ selected_excel = ""
    /\ server_filter = <<>> /\ wave_filter = <<>>
    /\ input_file = <<>> /\ outputs = <<>> /\ temp_files = <<>> /\ now = 0
    /\ SERVIZIO_TO_IPS = <<>> /\ LOCATION_TO_SUBNETS = <<>>
    /\ ip_to_service = <<>> /\ subnet_index = <<>> /\ final_path = 0
    /\ processed = 0 /\ next_step = 0 /\ last_ui_progress = 0 /\ last_ui_log = 0
    /\ outbound_count = <<>> /\ inbound_count = <<>>
    /\ fieldnames = <<>> /\ total_rows_to_process = 0 /\ pos = 0
    /\ log = <<>> /\ progress = <<>> /\ before = <<>>

-----------------------------------------------------------------------------
(* Inputs of the function-level specification of the filter *)

FILTER_COLUMNS == <<"src_group", "dest_group">>

FilterNames == { <<>>, <<"A">>, <<"a">>, <<" ","A">>, <<"B">>, <<"A","B">>, <<" ">> }
FilterGroups == { <<>>, <<"W">>, <<"x","w">> }
FilterWaves == { <<>>, <<"W">>, <<"w">> }
FilterServers == { <<>>, << <<"A">> >>, << <<"b">> >>, << <<"a","b">> >>,
                   << <<"B">>, <<"a">> >> }

\* Rows as csv.DictReader yields them: a column of the header the line is too
\* short for holds None; a column the header lacks is no key of the row.
FilterRows ==
    { [src_group |-> g, dest_group |-> h, src_name |-> s, dest_name |-> d] :
        g \in {<<"W">>}, h \in FilterGroups \cup {None},
        s \in FilterNames, d \in FilterNames \cup {None} }
    \cup
    { [src_group |-> g, dest_group |-> h] :
        g \in FilterGroups, h \in FilterGroups }

InitFilter ==
    /\ NoRun
    /\ op = "should_include_row"
    /\ arg \in [row : FilterRows, wave_filter : FilterWaves,
                server_filter : FilterServers, case_sensitive : BOOLEAN]
    /\ ret = <<>>

CallShouldIncludeRow ==
    /\ op = "should_include_row"
    /\ ret = <<>>
    /\ ret' = <<should_include_row(arg.row, arg.wave_filter, arg.server_filter,
                                   FILTER_COLUMNS, arg.case_sensitive)>>
    /\ UNCHANGED <<op, arg, runvars>>

NextFilter == CallShouldIncludeRow

SpecFilter == InitFilter /\ [][NextFilter]_vars

-----------------------------------------------------------------------------
(* Inputs of the function-level specification of the location lookup *)

IPText(a, b, c, d) ==
    IntToStr(a) \o <<".">> \o IntToStr(b) \o <<".">> \o IntToStr(c) \o <<".">> \o IntToStr(d)
CidrText(a, b, c, d, n) == IPText(a, b, c, d) \o <<"/">> \o IntToStr(n)

LocA == <<"D","C","1">>
LocB == <<"D","M","Z">>
OldLoc == <<"O","L","D">>

\* /8, /24, the same /24 written with host bits and blanks, a bare address
\* (/32), and a text ip_network rejects
LocationCidrs ==
    { CidrText(10, 0, 0, 0, 8), CidrText(10, 0, 0, 0, 24),
      <<" ">> \o CidrText(10, 0, 0, 77, 24), IPText(10, 0, 0, 5),
      <<"1","0",".","0",".","0","/","2","4">> }

CidrLists == { <<c>> : c \in LocationCidrs }
                \cup { <<c, d>> : c \in LocationCidrs, d \in LocationCidrs }

\* location maps of one or two locations
LocationMaps ==
    { << <<l, cs>> >> : l \in {LocA, LocB}, cs \in CidrLists }
    \cup { << <<LocA, cs>>, <<LocB, ds>> >> : cs \in CidrLists, ds \in CidrLists }
    \cup { << <<LocB, cs>>, <<LocA, ds>> >> : cs \in CidrLists, ds \in CidrLists }

SmallLocationMaps ==
    { <<>> }
    \cup { << <<l, <<c>> >> >> : l \in {LocA, LocB}, c \in LocationCidrs }
    \cup { << <<LocA, <<c>> >>, <<LocB, <<d>> >> >> : c \in LocationCidrs, d \in LocationCidrs }

\* a location named by a raw token, in capitals
LocRawPrivate == <<"R","I","S","C","-","U","n","k","n","o","w","n","-",
                   "P","r","i","v","a","t","e">>

\* location maps that name a raw token
RawLocationMaps ==
    { << <<LocRawPrivate, <<CidrText(10, 0, 0, 0, 24)>> >> >>,
      << <<LocA, <<CidrText(10, 0, 0, 0, 24)>> >>,
         <<RISC_INTERNET, <<CidrText(10, 0, 0, 0, 8)>> >> >> }

\* addresses as a row carries them: inside every network, inside the /24 and
\* the /8 only, inside the /8 only, outside all, empty, not an address, None
LocationAddrs ==
    { IPText(10, 0, 0, 5), <<" ">> \o IPText(10, 0, 0, 9) \o <<" ">>,
      IPText(10, 9, 9, 9), IPText(192, 168, 1, 1), <<>>,
      <<"1","0",".","0",".","0">>, None }

LocationRows ==
    { [src_addr |-> a, dest_addr |-> IPText(10, 0, 0, 9)] : a \in LocationAddrs }
    \cup { [src_addr |-> a, dest_addr |-> IPText(10, 0, 0, 9), src_loc |-> l] :
             a \in LocationAddrs,
             l \in {OldLoc, <<" ">> \o RISC_INTERNET, None} }
    \cup { [src_addr |-> IPText(10, 0, 0, 5), dest_addr |-> a, src_loc |-> OldLoc,
            dest_loc |-> l] :
             a \in LocationAddrs,
             l \in {OldLoc, <<"R","I","S","C">> \o SubSeq(RISC_PRIVATE, 5, 20)} }

InitLocation ==
    /\ NoRun
    /\ ret = <<>>
    /\ \/ /\ op = "find_location_for_ip"
          /\ arg \in [ip_str : LocationAddrs, subnets_by_location : LocationMaps]
       \/ /\ op = "enrich_row_with_locations"
          /\ arg \in [row : LocationRows,
                      subnets_by_location : SmallLocationMaps \cup RawLocationMaps]

CallFindLocationForIp ==
    /\ op = "find_location_for_ip"
    /\ ret = <<>>
    /\ ret' = <<find_location_for_ip(arg.ip_str,
                                     build_subnet_index(arg.subnets_by_location))>>
    /\ UNCHANGED <<op, arg, runvars>>

CallEnrichRowWithLocations ==
    /\ op = "enrich_row_with_locations"
    /\ ret = <<>>
    /\ ret' = <<enrich_row_with_locations(arg.row,
                                          build_subnet_index(arg.subnets_by_location))>>
    /\ UNCHANGED <<op, arg, runvars>>

NextLocation == CallFindLocationForIp \/ CallEnrichRowWithLocations

SpecLocation == InitLocation /\ [][NextLocation]_vars

-----------------------------------------------------------------------------
(* Inputs of the function-level specification of the service and comment   *)
(* annotation: lines 486-488 applied to one row that passed the filter     *)

SvcKms == <<"K","M","S">>
SvcUnknown == <<"U","n","k","n","o","w","n">>
OldText == <<"O","L","D">>

ServiceIps == { IPText(10, 0, 0, 5), <<" ">> \o IPText(10, 0, 0, 9) }
IpLists == { <<a>> : a \in ServiceIps } \cup { <<a, b>> : a \in ServiceIps, b \in ServiceIps }

\* service maps of no, one or two services
ServiceMaps ==
    { <<>> }
    \cup { << <<n, ips>> >> : n \in {SvcKms, SvcUnknown}, ips \in IpLists }
    \cup { << <<SvcKms, ips>>, <<SvcUnknown, jps>> >> : ips \in IpLists, jps \in IpLists }
    \cup { << <<SvcUnknown, ips>>, <<SvcKms, jps>> >> : ips \in IpLists, jps \in IpLists }

ServicePorts ==
    { <<"2","5">>, <<"8","1","2","5">>, <<"8","0","8","0">>,
      <<"8","0",",","3","8","3">>, <<>>, None }

ExampleLocationMap == << <<LocA, <<CidrText(10, 0, 0, 0, 24)>> >> >>

ServiceRows ==
    { [src_group |-> <<"W">>, dest_group |-> <<"W">>,
       src_name |-> <<"A">>, dest_name |-> <<"B">>,
       src_addr |-> a, dest_addr |-> b, dest_port |-> p] :
        a \in {IPText(10, 0, 0, 5), IPText(10, 0, 0, 9) \o <<" ">>, IPText(10, 9, 9, 9), None},
        b \in {IPText(10, 0, 0, 9), IPText(10, 9, 9, 9)},
        p \in ServicePorts }
    \cup
    { [src_group |-> <<"W">>, dest_group |-> <<"W">>,
       src_name |-> <<"A">>, dest_name |-> <<"B">>,
       src_addr |-> a, dest_addr |-> IPText(10, 9, 9, 9), dest_port |-> p,
       src_service |-> OldText, dest_service |-> SvcKms, COMMENTO |-> OldText] :
        a \in {IPText(10, 0, 0, 5), IPText(10, 9, 9, 9)},
        p \in ServicePorts }

InitService ==
    /\ NoRun
    /\ op = "enrich_row_with_services"
    /\ arg \in [row : ServiceRows, service_map : ServiceMaps]
    /\ ret = <<>>

CallEnrichRowWithServices ==
    /\ op = "enrich_row_with_services"
    /\ ret' = <<enrich_row_with_services(arg.row,
                                         build_ip_to_service_index(arg.service_map))>>
    /\ op' = "enrich_row_with_locations"
    /\ UNCHANGED <<arg, runvars>>

CallEnrichLocationsNext ==
    /\ op = "enrich_row_with_locations"
    /\ ret # <<>>
    /\ ret' = <<enrich_row_with_locations(ret[1], build_subnet_index(ExampleLocationMap))>>
    /\ op' = "enrich_row_with_comment"
    /\ UNCHANGED <<arg, runvars>>

CallEnrichRowWithComment ==
    /\ op = "enrich_row_with_comment"
    /\ ret' = <<enrich_row_with_comment(ret[1])>>
    /\ op' = "writerow"
    /\ UNCHANGED <<arg, runvars>>

NextService ==
    CallEnrichRowWithServices \/ CallEnrichLocationsNext \/ CallEnrichRowWithComment

SpecService == InitService /\ [][NextService]_vars

-----------------------------------------------------------------------------
(* Inputs of the function-level specification of enrich_row_with_comment   *)
(* alone: rows whose service columns hold any text, not only what          *)
(* enrich_row_with_services writes                                         *)

CommentPorts ==
    ServicePorts
    \cup { <<"1","2","5">>, <<"3","8","3"," ","2","5">>, <<"1","0","0","6","5">>,
           <<"2","5","0">>, <<"t","c","p","/","8","0","8","0">> }

CommentServices == { UNKNOWN, <<" ">> \o SvcUnknown, SvcKms, <<>>, None }

CommentRows ==
    { [src_addr |-> IPText(10, 0, 0, 5), dest_port |-> p,
       src_service |-> s, dest_service |-> d] :
        p \in CommentPorts, s \in CommentServices, d \in CommentServices }
    \cup
    { [src_addr |-> IPText(10, 0, 0, 5), dest_port |-> p,
       src_service |-> s, dest_service |-> UNKNOWN, COMMENTO |-> c] :
        p \in CommentPorts, s \in {UNKNOWN, SvcKms}, c \in {OldText, <<>>, None} }
    \cup
    { [src_addr |-> IPText(10, 0, 0, 5), src_service |-> UNKNOWN,
       dest_service |-> UNKNOWN] }

InitComment ==
    /\ NoRun
    /\ op = "enrich_row_with_comment"
    /\ arg \in [row : CommentRows]
    /\ ret = <<>>

CallCommentAlone ==
    /\ op = "enrich_row_with_comment"
    /\ ret = <<>>
    /\ ret' = <<enrich_row_with_comment(arg.row)>>
    /\ op' = "commented"
    /\ UNCHANGED <<arg, runvars>>

NextComment == CallCommentAlone

SpecComment == InitComment /\ [][NextComment]_vars

-----------------------------------------------------------------------------
(* run_user_python_code: helpers of the driver *)

THRESHOLDS == <<0, 25, 50, 75, 100>>
CASE_SENSITIVE == TRUE
PROGRESS_INTERVAL == 1
LOG_INTERVAL == 2
NEW_COLUMNS == <<"src_service", "dest_service", "src_loc", "dest_loc", "COMMENTO">>

Range(seq) == {seq[i] : i \in 1..Len(seq)}

\* csv.DictReader: the row of one line under the header
ReadRow(header, line) == [c \in Range(header) |-> line[c]]

\* [c for c in FILTER_COLUMNS if c not in reader.fieldnames]
MissingColumns(header) == SelectSeq(FILTER_COLUMNS, LAMBDA c : c \notin Range(header))

\* a slip that appends the new columns without looking at the header
AppendAlways(names, cols) == names \o cols

\* lines 444-447
RECURSIVE AppendMissing(_, _)
AppendMissing(names, cols) ==
    IF cols = <<>> THEN names
    ELSE AppendMissing(IF Head(cols) \in Range(names) THEN names
                       ELSE Append(names, Head(cols)),
                       Tail(cols))

OutputFieldnames(header) == AppendMissing(header, NEW_COLUMNS)

\* csv.DictWriter.writerow: the values in fieldnames order, "" for a missing
\* key or None
WriteRow(names, row) == [i \in 1..Len(names) |-> OrEmpty(Get(row, names[i]))]

\* {srv: 0 for srv in server_filter} if server_filter else {}
ZeroCounts(servers) == [srv \in Range(servers) |-> 0]

\* lines 476-483 for one of the two counters: every name of the list, in
\* turn, adds one when it occurs in the row's name
RECURSIVE UpdateCount(_, _, _)
UpdateCount(count, servers, name) ==
    IF servers = <<>> THEN count
    ELSE UpdateCount(IF Contains(Lower(Head(servers)), name)
                     THEN [count EXCEPT ![Head(servers)] = @ + 1]
                     ELSE count,
                     Tail(servers), name)

\* a slip that counts the row to come as processed
PercentOffByOne(n, total) == IF total # 0 THEN ((n + 1) * 100) \div total ELSE 0

\* int(processed * 100 / total) if total else 0
Percent(n, total) == IF total # 0 THEN (n * 100) \div total ELSE 0

\* line 499
MilestoneDue(step, pct) == step < Len(THRESHOLDS) /\ pct >= THRESHOLDS[step + 1]

\* a slip that tests the elapsed time against zero
UpdateDueNoWait(t, last, interval, n, total) == t - last >= 0 \/ n = total

\* lines 504 and 508
UpdateDue(t, last, interval, n, total) == t - last >= interval \/ n = total

\* lines 486-488
EnrichRow(row, ip_index, net_index) ==
    enrich_row_with_comment(
        enrich_row_with_locations(enrich_row_with_services(row, ip_index), net_index))

\* NamedTemporaryFile(dir=out_dir, delete=False): a new, empty file of out_dir
\* under a name no other file has
NamedTemporaryFile(temps) == Append(temps, [header |-> <<>>, rows |-> <<>>])

\* a slip that opens the destination itself for writing as well
OpenOutputInPlace(outs, temps, path) ==
    [outputs |-> [t \in (DOMAIN outs) \cup {path} |->
                     IF t = path THEN [header |-> <<>>, rows |-> <<>>] ELSE outs[t]],
     temp_files |-> NamedTemporaryFile(temps)]

\* what the with statement of lines 428-430 creates in out_dir: the
\* temporary file, and nothing at final_path
OpenOutput(outs, temps, path) ==
    [outputs |-> outs, temp_files |-> NamedTemporaryFile(temps)]

\* os.replace(tmp_path, final_path): the run's temporary file becomes the
\* file at final_path, whatever was there before
os_replace(outs, temps, path) ==
    [t \in (DOMAIN outs) \cup {path} |-> IF t = path THEN temps[Len(temps)] ELSE outs[t]]

\* the summary lines 523-527
SummaryLines(servers, out_count, in_count) ==
    IF servers = <<>> THEN <<>>
    ELSE << <<"Riepilogo conteggi per server">> >>
         \o [i \in 1..Len(servers) |->
                <<"conteggi", servers[i], out_count[servers[i]], in_count[servers[i]]>>]

-----------------------------------------------------------------------------
(* Inputs of the driver *)

MaxRows == 3
StartClock == 2

\* seconds the clock may advance between two readings of it
Ticks == {0, 1}

BaseHeader == <<"src_group", "dest_group", "src_addr", "dest_addr", "dest_port",
                "src_name", "dest_name">>

\* headers with every column the filter reads, the second with two of the
\* new columns already present
DriverHeaders == { BaseHeader, <<"COMMENTO">> \o BaseHeader \o <<"src_loc">> }

\* headers that lack a filter column or a name column
ShortHeaders ==
    { <<"src_group", "src_addr", "dest_addr", "dest_port", "src_name", "dest_name">>,
      <<"src_addr", "dest_addr", "dest_port", "src_name">>,
      <<"src_group", "dest_group", "src_addr", "dest_addr", "dest_port", "dest_name">> }

Line(g, sn, dn, sa, da, port) ==
    [src_group |-> g, dest_group |-> g, src_addr |-> sa, dest_addr |-> da,
     dest_port |-> port, src_name |-> sn, dest_name |-> dn,
     src_loc |-> OldLoc, COMMENTO |-> OldText]

\* A -> B; B -> A in another group; A -> " a" (self traffic); AB -> B
DriverLines ==
    { Line(<<"W">>, <<"A">>, <<"B">>, IPText(10, 0, 0, 5), IPText(10, 0, 0, 9), <<"2","5">>),
      Line(<<"X">>, <<"B">>, <<"A">>, IPText(10, 9, 9, 9), IPText(192, 168, 1, 1), <<"8","0","8","0">>),
      Line(<<"W">>, <<"A">>, <<" ","a">>, IPText(10, 9, 9, 9), IPText(10, 9, 9, 9), <<"2","5">>),
      Line(<<"W">>, <<"A","B">>, <<"B">>, IPText(10, 9, 9, 9), IPText(10, 0, 0, 9), <<"8","1","2","5">>) }

DriverFiles == UNION { [1..n -> DriverLines] : n \in 0..MaxRows }

DriverServers == { <<>>, << <<"A">> >>, << <<"A">>, <<"A">> >>, << <<"b">>, <<"A","B">> >> }
DriverWaves == { <<>>, <<"W">> }

ExampleServiceMap == << <<SvcKms, <<IPText(10, 0, 0, 5)>> >> >>
PriorOutput == [header |-> <<"old">>, rows |-> <<>>]

\* the arguments, the files and the locals at the call of run_user_python_code
RunInputs ==
    /\ AppIdle
    /\ op = "run_user_python_code" /\ arg = <<>> /\ ret = <<>>
    /\ pc = "validate" /\ error = <<>>
    /\ \/ /\ selected_file = "in.csv" /\ selected_excel = "map.xlsx"
          /\ server_filter \in DriverServers
          /\ wave_filter \in DriverWaves
          /\ input_file \in [header : DriverHeaders, lines : DriverFiles]
       \/ /\ selected_file = "in.csv" /\ selected_excel = "map.xlsx"
          /\ server_filter \in DriverServers
          /\ wave_filter = <<>>
          /\ input_file \in [header : ShortHeaders,
                              lines : {f \in DriverFiles : Len(f) <= 1}]
       \/ /\ \E paths \in {<<"", "map.xlsx">>, <<"in.csv", "">>, <<"", "">>} :
                selected_file = paths[1] /\ selected_excel = paths[2]
          /\ server_filter = <<>>
          /\ wave_filter = <<>>
          /\ input_file = [header |-> BaseHeader, lines |-> <<>>]
    \* an earlier run published a file, a second ago or within this second
    /\ outputs \in { [t \in {p} |-> PriorOutput] : p \in {StartClock - 1, StartClock} }
    /\ temp_files = <<>>
    /\ now = StartClock
    /\ ip_to_service = <<>> /\ subnet_index = <<>> /\ final_path = 0
    /\ processed = 0 /\ next_step = 0 /\ last_ui_progress = 0 /\ last_ui_log = 0
    /\ outbound_count = <<>> /\ inbound_count = <<>>
    /\ fieldnames = <<>> /\ total_rows_to_process = 0 /\ pos = 0
    /\ log = <<>> /\ progress = <<>>
    /\ before = [input_file |-> input_file, outputs |-> outputs,
                 pushed |-> <<>>, logged |-> <<>>]

\* the first run of the process: the module globals are as lines 59-60 leave them
InitRun ==
    /\ RunInputs
    /\ SERVIZIO_TO_IPS = <<>> /\ LOCATION_TO_SUBNETS = <<>>

\* what an earlier run of the process, on another workbook, left in the globals
StaleServiceMap == << <<SvcUnknown, <<IPText(10, 9, 9, 9)>> >>,
                      <<SvcKms, <<IPText(10, 0, 0, 9)>> >> >>
StaleLocationMap == << <<LocB, <<CidrText(10, 0, 0, 0, 8)>> >> >>

\* a later run of the process
InitRerun ==
    /\ RunInputs
    /\ selected_file # "" /\ selected_excel # ""
    /\ SERVIZIO_TO_IPS = StaleServiceMap /\ LOCATION_TO_SUBNETS = StaleLocationMap

-----------------------------------------------------------------------------
(* run_user_python_code, statement by statement *)

Raise(e) == pc' = "failed" /\ error' = e

\* lines 368-372
CheckArguments ==
    /\ pc = "validate"
    /\ IF selected_file = "" THEN Raise(<<"Select a CSV first.">>)
       ELSE IF selected_excel = "" THEN Raise(<<"Devi selezionare l'Excel">>)
       ELSE pc' = "load_mappings" /\ UNCHANGED error
    /\ UNCHANGED <<app, fnvars, arguments, input_file, outputs, temp_files, now, globals,
                   indices, throttle, counters, reader, callbacks, before>>

\* a slip that keeps the globals an earlier run filled
LoadMappingsOnce ==
    /\ pc = "load_mappings"
    /\ SERVIZIO_TO_IPS' = IF SERVIZIO_TO_IPS = <<>> THEN ExampleServiceMap
                           ELSE SERVIZIO_TO_IPS
    /\ LOCATION_TO_SUBNETS' = IF LOCATION_TO_SUBNETS = <<>> THEN ExampleLocationMap
                               ELSE LOCATION_TO_SUBNETS
    /\ log' = log \o << <<"Carico mapping da Excel">>,
                        <<"Servizi caricati", Len(SERVIZIO_TO_IPS')>>,
                        <<"Location caricate", Len(LOCATION_TO_SUBNETS')>> >>
    /\ pc' = "count_lines"
    /\ UNCHANGED <<app, fnvars, error, arguments, input_file, outputs, temp_files, now,
                   indices, throttle, counters, reader, progress, before>>

\* lines 374-383, the workbook holding both sheets
LoadMappings ==
    /\ pc = "load_mappings"
    /\ SERVIZIO_TO_IPS' = ExampleServiceMap
    /\ LOCATION_TO_SUBNETS' = ExampleLocationMap
    /\ log' = log \o << <<"Carico mapping da Excel">>,
                        <<"Servizi caricati", Len(ExampleServiceMap)>>,
                        <<"Location caricate", Len(ExampleLocationMap)>> >>
    /\ pc' = "count_lines"
    /\ UNCHANGED <<app, fnvars, error, arguments, input_file, outputs, temp_files, now,
                   indices, throttle, counters, reader, progress, before>>

\* line 375 raising: no openpyxl, an unreadable workbook, a sheet or a column missing
LoadMappingsFails ==
    /\ pc = "load_mappings"
    /\ log' = Append(log, <<"Carico mapping da Excel">>)
    /\ Raise(<<"mapping load failed">>)
    /\ UNCHANGED <<app, fnvars, arguments, input_file, outputs, temp_files, now, globals,
                   indices, throttle, counters, reader, progress, before>>

\* lines 386-426
Prepare ==
    /\ pc = "count_lines"
    /\ log' = log
              \o << <<"Found rows", Len(input_file.lines)>> >>
              \o (IF server_filter # <<>> THEN << <<"Filtering for servers", server_filter>> >> ELSE <<>>)
              \o (IF wave_filter # <<>> THEN << <<"Filtering for wave", wave_filter>> >> ELSE <<>>)
              \o << <<"Conteggio righe da processare">> >>
    /\ ip_to_service' = build_ip_to_service_index(SERVIZIO_TO_IPS)
    /\ subnet_index' = build_subnet_index(LOCATION_TO_SUBNETS)
    /\ final_path' = now
    /\ processed' = 0 /\ next_step' = 0 /\ last_ui_progress' = 0 /\ last_ui_log' = 0
    /\ outbound_count' = ZeroCounts(server_filter)
    /\ inbound_count' = ZeroCounts(server_filter)
    /\ pc' = "open_files"
    /\ UNCHANGED <<app, fnvars, error, arguments, input_file, outputs, temp_files, now,
                   globals, reader, progress, before>>

\* lines 428-432
OpenFiles ==
    /\ pc = "open_files"
    /\ outputs' = OpenOutput(outputs, temp_files, final_path).outputs
    /\ temp_files' = OpenOutput(outputs, temp_files, final_path).temp_files
    /\ pc' = "validate_columns"
    /\ UNCHANGED <<app, fnvars, error, arguments, input_file, now, globals,
                   indices, throttle, counters, reader, callbacks, before>>

\* lines 435-441
ValidateColumns ==
    /\ pc = "validate_columns"
    /\ IF MissingColumns(input_file.header) # <<>>
       THEN Raise(<<"Missing columns", MissingColumns(input_file.header)>>)
       ELSE IF /\ server_filter # <<>>
               /\ \/ "src_name" \notin Range(input_file.header)
                  \/ "dest_name" \notin Range(input_file.header)
       THEN Raise(<<"Colonne 'src_name' o 'dest_name' non trovate nel CSV">>)
       ELSE pc' = "write_header" /\ UNCHANGED error
    /\ UNCHANGED <<app, fnvars, arguments, input_file, outputs, temp_files, now, globals,
                   indices, throttle, counters, reader, callbacks, before>>

\* lines 444-455
WriteHeader ==
    /\ pc = "write_header"
    /\ fieldnames' = OutputFieldnames(input_file.header)
    /\ temp_files' = [temp_files EXCEPT ![Len(temp_files)].header =
                          OutputFieldnames(input_file.header)]
    /\ total_rows_to_process' = 0
    /\ pos' = 0
    /\ pc' = "counting"
    /\ UNCHANGED <<app, fnvars, error, arguments, input_file, outputs, now, globals,
                   indices, throttle, counters, callbacks, before>>

\* a slip that lets the counting pass update the outbound counters as well
CountRowAndTally ==
    /\ pc = "counting"
    /\ pos < Len(input_file.lines)
    /\ pos' = pos + 1
    /\ LET row == ReadRow(input_file.header, input_file.lines[pos + 1])
           keep == should_include_row(row, wave_filter, server_filter, FILTER_COLUMNS,
                                      CASE_SENSITIVE)
       IN  /\ total_rows_to_process' =
                  IF keep THEN total_rows_to_process + 1 ELSE total_rows_to_process
           /\ outbound_count' =
                  IF keep THEN UpdateCount(outbound_count, server_filter,
                                           NameKey(row, "src_name"))
                  ELSE outbound_count
    /\ UNCHANGED <<app, fnvars, pc, error, arguments, input_file, outputs, temp_files, now,
                   globals, indices, throttle, inbound_count, fieldnames, callbacks,
                   before>>

\* lines 456-458, one row
CountRow ==
    /\ pc = "counting"
    /\ pos < Len(input_file.lines)
    /\ pos' = pos + 1
    /\ total_rows_to_process' =
          IF should_include_row(ReadRow(input_file.header, input_file.lines[pos + 1]),
                                wave_filter, server_filter, FILTER_COLUMNS, CASE_SENSITIVE)
          THEN total_rows_to_process + 1
          ELSE total_rows_to_process
    /\ UNCHANGED <<app, fnvars, pc, error, arguments, input_file, outputs, temp_files, now,
                   globals, indices, throttle, counters, fieldnames, callbacks, before>>

\* a slip that leaves out src.seek(0): the second reader starts at the end
RewindWithoutSeek ==
    /\ pc = "counting"
    /\ pos = Len(input_file.lines)
    /\ log' = Append(log, <<"Righe da processare", total_rows_to_process>>)
    /\ pc' = "processing"
    /\ UNCHANGED <<app, fnvars, error, arguments, input_file, outputs, temp_files, now,
                   globals, indices, throttle, counters, reader, progress, before>>

\* lines 460-462
Rewind ==
    /\ pc = "counting"
    /\ pos = Len(input_file.lines)
    /\ log' = Append(log, <<"Righe da processare", total_rows_to_process>>)
    /\ pos' = 0
    /\ pc' = "processing"
    /\ UNCHANGED <<app, fnvars, error, arguments, input_file, outputs, temp_files, now,
                   globals, indices, throttle, counters, fieldnames,
                   total_rows_to_process, progress, before>>

\* lines 466-470, a row the filter rejects
SkipRow ==
    /\ pc = "processing"
    /\ pos < Len(input_file.lines)
    /\ ~should_include_row(ReadRow(input_file.header, input_file.lines[pos + 1]),
                           wave_filter, server_filter, FILTER_COLUMNS, CASE_SENSITIVE)
    /\ pos' = pos + 1
    /\ UNCHANGED <<app, fnvars, pc, error, arguments, input_file, outputs, temp_files, now,
                   globals, indices, throttle, counters, fieldnames,
                   total_rows_to_process, callbacks, before>>

\* lines 466-510, a row the filter accepts; the clock has advanced by dt
\* since it was last read
ProcessRow ==
    /\ pc = "processing"
    /\ pos < Len(input_file.lines)
    /\ LET row == ReadRow(input_file.header, input_file.lines[pos + 1])
           n == processed + 1
           pct == Percent(n, total_rows_to_process)
           step == MilestoneDue(next_step, pct)
       IN  /\ should_include_row(row, wave_filter, server_filter, FILTER_COLUMNS,
                                 CASE_SENSITIVE)
           /\ \E dt \in Ticks :
                LET t == now + dt
                    push == UpdateDue(t, last_ui_progress, PROGRESS_INTERVAL, n,
                                      total_rows_to_process)
                    line == UpdateDue(t, last_ui_log, LOG_INTERVAL, n,
                                      total_rows_to_process)
                IN  /\ now' = t
                    /\ progress' = IF push THEN Append(progress, pct) ELSE progress
                    /\ last_ui_progress' = IF push THEN t ELSE last_ui_progress
                    /\ log' = log
                              \o (IF step THEN << <<"STEP", next_step>> >> ELSE <<>>)
                              \o (IF line
                                  THEN << <<"Row", n, total_rows_to_process, pct>> >>
                                  ELSE <<>>)
                    /\ last_ui_log' = IF line THEN t ELSE last_ui_log
                    /\ before' = [before EXCEPT
                                    !.pushed = IF push THEN Append(@, <<t, n>>) ELSE @,
                                    !.logged = IF line THEN Append(@, <<t, n>>) ELSE @]
           /\ outbound_count' =
                IF server_filter # <<>>
                THEN UpdateCount(outbound_count, server_filter, NameKey(row, "src_name"))
                ELSE outbound_count
           /\ inbound_count' =
                IF server_filter # <<>>
                THEN UpdateCount(inbound_count, server_filter, NameKey(row, "dest_name"))
                ELSE inbound_count
           /\ temp_files' = [temp_files EXCEPT ![Len(temp_files)].rows =
                                Append(@, WriteRow(fieldnames,
                                                   EnrichRow(row, ip_to_service, subnet_index)))]
           /\ processed' = n
           /\ next_step' = IF step THEN next_step + 1 ELSE next_step
    /\ pos' = pos + 1
    /\ UNCHANGED <<app, fnvars, pc, error, arguments, input_file, outputs, globals, indices,
                   fieldnames, total_rows_to_process>>

\* line 512 and the end of the with block
CloseFiles ==
    /\ pc = "processing"
    /\ pos = Len(input_file.lines)
    /\ pc' = "final_progress"
    /\ UNCHANGED <<app, fnvars, error, arguments, input_file, outputs, temp_files, now,
                   globals, indices, throttle, counters, reader, callbacks, before>>

\* line 515
FinalProgress ==
    /\ pc = "final_progress"
    /\ progress' = Append(progress, 100)
    /\ pc' = "replace"
    /\ UNCHANGED <<app, fnvars, error, arguments, input_file, outputs, temp_files, now,
                   globals, indices, throttle, counters, reader, log, before>>

\* line 516
Replace ==
    /\ pc = "replace"
    /\ outputs' = os_replace(outputs, temp_files, final_path)
    /\ temp_files' = SubSeq(temp_files, 1, Len(temp_files) - 1)
    /\ pc' = "summary"
    /\ UNCHANGED <<app, fnvars, error, arguments, input_file, now, globals, indices,
                   throttle, counters, reader, callbacks, before>>

\* lines 518-527
Summary ==
    /\ pc = "summary"
    /\ log' = log \o << <<"Fatto! File processato">>, <<"File generato", final_path>> >>
                  \o SummaryLines(server_filter, outbound_count, inbound_count)
    /\ pc' = "done"
    /\ UNCHANGED <<app, fnvars, error, arguments, input_file, outputs, temp_files, now,
                   globals, indices, throttle, counters, reader, progress, before>>

\* an OSError from open(), from reading or writing a row, or from os.replace
IOFailure ==
    /\ pc \in {"count_lines", "open_files", "write_header", "counting", "processing",
               "replace"}
    /\ Raise(<<"OSError">>)
    /\ UNCHANGED <<app, fnvars, arguments, input_file, outputs, temp_files, now, globals,
                   indices, throttle, counters, reader, callbacks, before>>

Next ==
    \/ CheckArguments \/ LoadMappings \/ LoadMappingsFails \/ Prepare \/ OpenFiles
    \/ ValidateColumns \/ WriteHeader \/ CountRow \/ Rewind \/ SkipRow \/ ProcessRow
    \/ CloseFiles \/ FinalProgress \/ Replace \/ Summary \/ IOFailure

Spec == InitRun /\ [][Next]_vars

\* a run in a process whose globals an earlier run has filled
SpecRerun == InitRerun /\ [][Next]_vars

-----------------------------------------------------------------------------
(* The hosting application: App._on_run on the main thread, _worker_wrapper *)
(* on the worker thread it starts, _drain_queue on the main thread. What    *)
(* the worker's call of run_user_python_code does is seen here through the  *)
(* callbacks it invokes and through how it ends: by returning, as the       *)
(* driver at "done", or by raising, as the driver at "failed".              *)

MaxRuns == 2
MaxCallbacks == 2

\* everything of the driver but the two paths the application selects
rundata == <<pc, error, server_filter, wave_filter, input_file, outputs, temp_files,
             now, globals, indices, throttle, counters, reader, callbacks, before>>

InitApp ==
    /\ NoRun
    /\ op = "App" /\ arg = <<>> /\ ret = <<>>

\* the worker is at `at` and moves to `to`, putting msg
WorkerPuts(w, at, to, msg) ==
    /\ threads[w].at = at
    /\ ui_queue' = Append(ui_queue, msg)
    /\ threads' = [threads EXCEPT ![w] = [at |-> to, put |-> Append(@.put, msg)]]
    /\ UNCHANGED <<fnvars, drivervars, is_running, run_btn, status_chip, main>>

\* lines 803-816: a path is chosen in one of the two file dialogs
OnBrowse ==
    /\ main = "idle"
    /\ \/ selected_file' = "in.csv" /\ UNCHANGED selected_excel
       \/ selected_excel' = "map.xlsx" /\ UNCHANGED selected_file
    /\ UNCHANGED <<fnvars, rundata, app>>

\* a slip that leaves out the test of is_running
OnRunUnguarded ==
    /\ main = "idle"
    /\ Len(threads) < MaxRuns
    /\ IF selected_file = "" THEN UNCHANGED app
       ELSE IF selected_excel = ""
       THEN /\ is_running' = FALSE /\ run_btn' = "normal" /\ status_chip' = "Pronto"
            /\ UNCHANGED <<ui_queue, threads, main>>
       ELSE /\ is_running' = TRUE /\ run_btn' = "disabled"
            /\ status_chip' = "Elaborazione"
            /\ threads' = Append(threads, [at |-> "call", put |-> <<>>])
            /\ UNCHANGED <<ui_queue, main>>
    /\ UNCHANGED <<fnvars, drivervars>>

\* lines 818-857: _on_run, a click on the run button
OnRun ==
    /\ main = "idle"
    /\ Len(threads) < MaxRuns
    /\ IF is_running THEN UNCHANGED app
       ELSE IF selected_file = "" THEN UNCHANGED app
       ELSE IF selected_excel = ""
       THEN /\ is_running' = FALSE /\ run_btn' = "normal" /\ status_chip' = "Pronto"
            /\ UNCHANGED <<ui_queue, threads, main>>
       ELSE /\ is_running' = TRUE /\ run_btn' = "disabled"
            /\ status_chip' = "Elaborazione"
            /\ threads' = Append(threads, [at |-> "call", put |-> <<>>])
            /\ UNCHANGED <<ui_queue, main>>
    /\ UNCHANGED <<fnvars, drivervars>>

\* lines 860-861: run_user_python_code calls queue_put or progress_set
WorkerCallback ==
    \E w \in 1..Len(threads) :
        /\ Len(threads[w].put) < MaxCallbacks
        /\ \E msg \in {<<"log", "line">>, <<"progress", 50>>} :
               WorkerPuts(w, "call", "call", msg)

\* lines 863-864: the call returned
WorkerReturns ==
    \E w \in 1..Len(threads) :
        WorkerPuts(w, "call", "finally", <<"status", "Completato">>)

\* lines 865-866: the call raised
WorkerRaises ==
    \E w \in 1..Len(threads) :
        WorkerPuts(w, "call", "except", <<"log", "[ERRORE]">>)

\* line 867
WorkerFailed ==
    \E w \in 1..Len(threads) :
        WorkerPuts(w, "except", "finally", <<"status", "Fallito">>)

\* lines 868-869
WorkerFinally ==
    \E w \in 1..Len(threads) :
        WorkerPuts(w, "finally", "ended", <<"done", None>>)

\* line 652 and line 904: the timer calls _drain_queue
DrainStart ==
    /\ main = "idle"
    /\ main' = "draining"
    /\ UNCHANGED <<fnvars, drivervars, is_running, run_btn, status_chip, ui_queue,
                   threads>>

\* lines 891-900: one turn of the loop of _drain_queue
DrainMessage ==
    /\ main = "draining"
    /\ ui_queue # <<>>
    /\ ui_queue' = Tail(ui_queue)
    /\ LET key == Head(ui_queue)[1]
           payload == Head(ui_queue)[2]
       IN  /\ status_chip' = IF key = "status" THEN payload ELSE status_chip
           /\ is_running' = IF key = "done" THEN FALSE ELSE is_running
           /\ run_btn' = IF key = "done" THEN "normal" ELSE run_btn
    /\ UNCHANGED <<fnvars, drivervars, threads, main>>

\* lines 901-902: queue.Empty ends the loop
DrainEmpty ==
    /\ main = "draining"
    /\ ui_queue = <<>>
    /\ main' = "idle"
    /\ UNCHANGED <<fnvars, drivervars, is_running, run_btn, status_chip, ui_queue,
                   threads>>

NextApp ==
    \/ OnBrowse \/ OnRun \/ WorkerCallback \/ WorkerReturns \/ WorkerRaises
    \/ WorkerFailed \/ WorkerFinally \/ DrainStart \/ DrainMessage \/ DrainEmpty

SpecApp == InitApp /\ [][NextApp]_vars

-----------------------------------------------------------------------------
(* Properties of the driver *)

\* the run's own temporary file
OwnTemp == temp_files[Len(temp_files)]

\* the milestone lines logged so far, as indices into STEPS
Milestones == SelectSeq(log, LAMBDA line : line[1] = "STEP")

\* the lines of the input the Row Filter lets through
Survivors ==
    {k \in 1..Len(input_file.lines) :
        should_include_row(ReadRow(input_file.header, input_file.lines[k]),
                           wave_filter, server_filter, FILTER_COLUMNS, CASE_SENSITIVE)}

\* the surviving lines whose column col contains name, case-insensitively
SurvivorsNaming(col, name) ==
    {k \in Survivors :
        Contains(Lower(name), Lower(OrEmpty(Get(ReadRow(input_file.header,
                                                        input_file.lines[k]), col))))}

\* C1: a run that has failed has left every published file of the output
\* directory, the destination path included, and the input file exactly as
\* they were when the run began: no rename was performed.
C1_FailedRunPublishesNothing ==
    pc = "failed" => outputs = before.outputs /\ input_file = before.input_file

\* C1 witness: a run that failed while processing, after it had written rows
\* to its temporary file, with a file already present at the destination path
C1_Witness ==
    /\ pc = "failed"
    /\ error = <<"OSError">>
    /\ temp_files # <<>>
    /\ Len(OwnTemp.rows) > 0
    /\ final_path \in DOMAIN outputs

\* C2: in a run that completed, each of the five thresholds has produced
\* its milestone line, once and in threshold order.
C2_EveryMilestoneLogged ==
    pc = "done" => Milestones = << <<"STEP", 0>>, <<"STEP", 1>>, <<"STEP", 2>>,
                                   <<"STEP", 3>>, <<"STEP", 4>> >>

\* C3: every value handed to progress_set lies in 0..100, the values never
\* decrease, and the last value of a completed run is 100.
C3_ProgressMonotone ==
    /\ \A i \in 1..Len(progress) : progress[i] \in 0..100
    /\ \A i \in 1..(Len(progress) - 1) : progress[i] <= progress[i + 1]
    /\ pc = "done" => progress # <<>> /\ progress[Len(progress)] = 100

\* C3 witness: a completed run whose progress rose in steps below 100
C3_Witness ==
    /\ pc = "done"
    /\ Len(progress) >= 3
    /\ progress[1] < progress[2]
    /\ progress[2] < 100

\* C4: when processing has ended, the outbound counter of every filtered
\* name is the number of surviving rows whose source name contains it, the
\* inbound counter the number whose destination name contains it, and the
\* summary reports these numbers.
C4_CountersCountRows ==
    pc = "done" =>
        \A i \in 1..Len(server_filter) :
            /\ outbound_count[server_filter[i]]
                  = Cardinality(SurvivorsNaming("src_name", server_filter[i]))
            /\ inbound_count[server_filter[i]]
                  = Cardinality(SurvivorsNaming("dest_name", server_filter[i]))
            /\ \E j \in 1..Len(log) :
                  log[j] = <<"conteggi", server_filter[i],
                             Cardinality(SurvivorsNaming("src_name", server_filter[i])),
                             Cardinality(SurvivorsNaming("dest_name", server_filter[i]))>>

\* C4, the part that holds: the same, for a filter list that names no
\* server twice
C4_CountersCountRowsNoRepeat ==
    (\A i, j \in 1..Len(server_filter) : server_filter[i] = server_filter[j] => i = j)
        => C4_CountersCountRows

\* C4, the example of the specification: A->B, B->A and the self-traffic
\* row A->A under the filter [A] end with outbound 1 and inbound 1
C4_Example ==
    /\ pc = "done"
    /\ server_filter = << <<"A">> >>
    /\ wave_filter = <<>>
    /\ Len(input_file.lines) = 3
    /\ input_file.lines[1].src_name = <<"A">> /\ input_file.lines[1].dest_name = <<"B">>
    /\ input_file.lines[2].src_name = <<"B">> /\ input_file.lines[2].dest_name = <<"A">>
    /\ input_file.lines[3].src_name = <<"A">> /\ input_file.lines[3].dest_name = <<" ","a">>
    /\ outbound_count[<<"A">>] = 1
    /\ inbound_count[<<"A">>] = 1

-----------------------------------------------------------------------------
(* Properties of the row filter *)

\* the filter's calls and the runs of the driver, side by side
SpecFilterRun == (InitFilter \/ InitRun) /\ [][NextFilter \/ Next]_vars

\* the text of a column, "" when the row has no such column or holds None
TextOf(row, col) == IF col \in DOMAIN row /\ row[col] # None THEN row[col] ELSE <<>>

\* source and destination name are non-empty and equal once trimmed and
\* compared without regard to case
SelfTraffic(row) ==
    /\ Strip(TextOf(row, "src_name")) # <<>>
    /\ Strip(TextOf(row, "dest_name")) # <<>>
    /\ Lower(Strip(TextOf(row, "src_name"))) = Lower(Strip(TextOf(row, "dest_name")))

\* the rows the run has written to its output so far
WrittenRows ==
    IF pc \in {"summary", "done"} THEN outputs[final_path].rows
    ELSE IF temp_files # <<>> THEN OwnTemp.rows
    ELSE <<>>

\* a written row, as the function from the output's column names
WrittenRow(values) ==
    [c \in Range(fieldnames) |-> values[CHOOSE i \in 1..Len(fieldnames) : fieldnames[i] = c]]

\* the lines of the input that are not self traffic
NotSelfTraffic ==
    {k \in 1..Len(input_file.lines) :
        ~SelfTraffic(ReadRow(input_file.header, input_file.lines[k]))}

\* C5: should_include_row rejects every self-traffic row, whatever the wave
\* filter, the server filter and the case flag are; and a run writes no
\* self-traffic row to its output and counts none.
C5_SelfTrafficRejected ==
    /\ (op = "should_include_row" /\ ret # <<>> /\ SelfTraffic(arg.row))
          => ret[1] = FALSE
    /\ op = "run_user_python_code" =>
          /\ \A i \in 1..Len(WrittenRows) : ~SelfTraffic(WrittenRow(WrittenRows[i]))
          /\ total_rows_to_process <= Cardinality(NotSelfTraffic)
          /\ processed <= Cardinality(NotSelfTraffic)

\* C5 witness: a self-traffic row whose names differ in case and blanks,
\* rejected with no filter configured
C5_Witness ==
    /\ op = "should_include_row" /\ ret = <<FALSE>>
    /\ arg.wave_filter = <<>> /\ arg.server_filter = <<>>
    /\ SelfTraffic(arg.row)
    /\ arg.row.src_name # arg.row.dest_name

\* clause (1): no wave filter, or the wave filter occurs in a filter column
WaveClause(row, wave, case_sensitive) ==
    \/ wave = <<>>
    \/ \E c \in Range(FILTER_COLUMNS) :
          IF case_sensitive THEN Contains(wave, TextOf(row, c))
          ELSE Contains(Lower(wave), Lower(TextOf(row, c)))

\* clause (2): no server filter, or one of its names occurs, whatever the
\* case, in the source name or in the destination name
ServerClause(row, servers) ==
    \/ servers = <<>>
    \/ \E i \in 1..Len(servers) :
          \/ Contains(Lower(servers[i]), Lower(TextOf(row, "src_name")))
          \/ Contains(Lower(servers[i]), Lower(TextOf(row, "dest_name")))

-----------------------------------------------------------------------------
(* Properties of the location lookup *)

\* the configured networks in the order the map lists them
Configured(map) == CompileSubnets(map)

\* the positions in Configured(map) of the networks that contain address x
Containing(x, map) ==
    {i \in 1..Len(Configured(map)) : InNetwork(x, Configured(map)[i][1])}

\* the first of the containing networks with the longest prefix
MostSpecific(x, map) ==
    CHOOSE i \in Containing(x, map) :
        \A j \in Containing(x, map) :
            \/ prefixlen(Configured(map)[j][1]) < prefixlen(Configured(map)[i][1])
            \/ prefixlen(Configured(map)[j][1]) = prefixlen(Configured(map)[i][1]) /\ i <= j

\* the address a text denotes, None when it denotes none
AddressOf(text) ==
    IF Strip(OrEmpty(text)) = <<>> THEN None ELSE IPv4Address(Strip(OrEmpty(text)))

\* C7: for an address some configured network contains, the lookup returns
\* the location of the containing network with the longest prefix, the
\* first of them in the map's order when several have that prefix.
C7_LongestPrefixFirstWins ==
    (op = "find_location_for_ip" /\ ret # <<>>) =>
        LET x == AddressOf(arg.ip_str)
            map == arg.subnets_by_location
        IN  (x # None /\ Containing(x, map) # {}) =>
                ret[1] = Configured(map)[MostSpecific(x, map)][2]

\* C7 witness: the address lies in a /8 listed first and in two /24 of
\* different locations listed after it; the first /24 wins
C7_Witness ==
    /\ op = "find_location_for_ip" /\ ret # <<>>
    /\ AddressOf(arg.ip_str) # None
    /\ LET x == AddressOf(arg.ip_str)
           nets == Configured(arg.subnets_by_location)
       IN  \E i, j, k \in Containing(x, arg.subnets_by_location) :
              /\ i < j /\ j < k
              /\ prefixlen(nets[i][1]) = 8
              /\ prefixlen(nets[j][1]) = 24 /\ prefixlen(nets[k][1]) = 24
              /\ nets[j][2] # nets[k][2]
              /\ ret[1] = nets[j][2]

\* no configured network contains the address the text denotes, or it
\* denotes none
Unresolvable(text, map) ==
    \/ AddressOf(text) = None
    \/ Containing(AddressOf(text), map) = {}

\* what the normalisation of lines 302-307 alone makes of a value
Normalised(v) ==
    IF v = None THEN v
    ELSE IF Lower(Strip(v)) = RISC_INTERNET THEN PUBLIC
    ELSE IF Lower(Strip(v)) = RISC_PRIVATE THEN PRIVATE
    ELSE v

\* the lookup left column col of the row alone: absent it stays absent,
\* present it holds what normalisation makes of the value it had
LookupLeftAlone(row, out, col) ==
    IF col \in DOMAIN row
    THEN col \in DOMAIN out /\ out[col] = Normalised(row[col])
    ELSE col \notin DOMAIN out

\* C8: for an address that is empty, unparseable or in no configured
\* network, find_location_for_ip returns None, and the lookup of
\* enrich_row_with_locations neither sets nor overwrites nor defaults the
\* location column of that address.
C8_NoMatchLeavesColumn ==
    /\ (op = "find_location_for_ip" /\ ret # <<>>
          /\ Unresolvable(arg.ip_str, arg.subnets_by_location))
          => ret[1] = None
    /\ (op = "enrich_row_with_locations" /\ pc = "idle" /\ ret # <<>>
          /\ "subnets_by_location" \in DOMAIN arg) =>
          /\ Unresolvable(Get(arg.row, "src_addr"), arg.subnets_by_location)
                => LookupLeftAlone(arg.row, ret[1], "src_loc")
          /\ Unresolvable(Get(arg.row, "dest_addr"), arg.subnets_by_location)
                => LookupLeftAlone(arg.row, ret[1], "dest_loc")

\* C8 witness: the destination was resolved and its column set, the source
\* lies in no network and its column keeps the value the row came with
C8_Witness ==
    /\ op = "enrich_row_with_locations" /\ ret # <<>>
    /\ "subnets_by_location" \in DOMAIN arg
    /\ arg.row.src_addr = IPText(192, 168, 1, 1)
    /\ "src_loc" \in DOMAIN arg.row /\ arg.row.src_loc = OldLoc
    /\ ret[1].src_loc = OldLoc
    /\ "dest_loc" \notin DOMAIN arg.row
    /\ "dest_loc" \in DOMAIN ret[1] /\ ret[1].dest_loc = LocA

-----------------------------------------------------------------------------
(* Properties of the service and comment annotation *)

\* the services of the map whose list holds address a, once trimmed
ClaimedBy(a, map) ==
    {map[i][1] : i \in {i \in 1..Len(map) :
                           \E j \in 1..Len(map[i][2]) : Strip(map[i][2][j]) = a}}

\* the service column col holds what the map says about the address of
\* column addr
ServiceColumnRight(row, out, map, addr, col) ==
    LET a == Strip(TextOf(row, addr))
    IN  /\ col \in DOMAIN out
        /\ Cardinality(ClaimedBy(a, map)) = 1 => {out[col]} = ClaimedBy(a, map)
        /\ ClaimedBy(a, map) = {} => out[col] = UNKNOWN

\* C9: enrich_row_with_services always writes both service columns: the
\* one service that lists the address, `unknown` when no service lists it.
C9_ServiceLookup ==
    (op = "enrich_row_with_locations" /\ "service_map" \in DOMAIN arg) =>
        /\ ServiceColumnRight(arg.row, ret[1], arg.service_map, "src_addr", "src_service")
        /\ ServiceColumnRight(arg.row, ret[1], arg.service_map, "dest_addr", "dest_service")

\* C9 witness: the row came with service columns; the source address,
\* listed with blanks by one service, got that service and the destination,
\* listed by none, got `unknown`
C9_Witness ==
    /\ op = "enrich_row_with_locations" /\ "service_map" \in DOMAIN arg
    /\ "src_service" \in DOMAIN arg.row /\ arg.row.dest_service = SvcKms
    /\ arg.service_map = << <<SvcKms, << <<" ">> \o IPText(10, 0, 0, 9), IPText(10, 0, 0, 5) >> >> >>
    /\ arg.row.src_addr = IPText(10, 0, 0, 5)
    /\ ret[1].src_service = SvcKms
    /\ ret[1].dest_service = UNKNOWN

\* C10: a row that passed the filter and whose source or destination
\* address some service of the map lists leaves the enricher with the
\* comment `skip shared services`.
C10_SharedServiceComment ==
    (/\ op = "writerow"
     /\ should_include_row(arg.row, <<>>, <<>>, FILTER_COLUMNS, CASE_SENSITIVE)
     /\ \/ ClaimedBy(Strip(TextOf(arg.row, "src_addr")), arg.service_map) # {}
        \/ ClaimedBy(Strip(TextOf(arg.row, "dest_addr")), arg.service_map) # {})
        => /\ "COMMENTO" \in DOMAIN ret[1]
           /\ ret[1].COMMENTO = SKIP_SHARED

\* C10, the part that holds: the same, when no service that lists one of
\* the two addresses is named `unknown` in whatever case
C10_SharedServiceCommentNamed ==
    (/\ op = "writerow"
     /\ \A n \in ClaimedBy(Strip(TextOf(arg.row, "src_addr")), arg.service_map)
               \cup ClaimedBy(Strip(TextOf(arg.row, "dest_addr")), arg.service_map) :
            Lower(Strip(n)) # UNKNOWN)
        => C10_SharedServiceComment

-----------------------------------------------------------------------------
(* C11: the port rules *)

\* the numbers written in a text: its maximal runs of digits
NumbersIn(s) ==
    { SubSeq(s, i, j) : <<i, j>> \in
        { ij \in (1..Len(s)) \X (1..Len(s)) :
            /\ ij[1] <= ij[2]
            /\ \A k \in ij[1]..ij[2] : IsDigit(s[k])
            /\ (ij[1] = 1 \/ ~IsDigit(s[ij[1] - 1]))
            /\ (ij[2] = Len(s) \/ ~IsDigit(s[ij[2] + 1])) } }

\* the rules of the table, by position, whose port is one of the numbers of
\* the destination port text
RulesNaming(dest_port) ==
    { i \in 1..Len(PORT_COMMENTS) :
        IntToStr(PORT_COMMENTS[i][1]) \in NumbersIn(OrEmpty(dest_port)) }

BothUnknown(row) ==
    Get(row, "src_service") = UNKNOWN /\ Get(row, "dest_service") = UNKNOWN

\* C11: for a row with both services `unknown`, the comment written is the
\* label of the first rule of the table 25, 8080, 10065, 383 whose port is a
\* complete number of the destination port text; when no rule matches the
\* comment produced is empty, so that nothing is written to COMMENTO.
C11_FirstPortRuleWins ==
    (op = "commented" /\ BothUnknown(arg.row)) =>
        LET hits == RulesNaming(Get(arg.row, "dest_port"))
        IN  IF hits = {}
            THEN Get(ret[1], "COMMENTO") = Get(arg.row, "COMMENTO")
            ELSE Get(ret[1], "COMMENTO") =
                     PORT_COMMENTS[CHOOSE i \in hits : \A j \in hits : i <= j][2]

\* C11 witness: the port text `383 25` names the fourth and the first rule
\* and the row got the first rule's label
C11_Witness ==
    /\ op = "commented" /\ BothUnknown(arg.row)
    /\ Get(arg.row, "dest_port") = <<"3","8","3"," ","2","5">>
    /\ Get(ret[1], "COMMENTO") = <<"S","M","T","P">>

-----------------------------------------------------------------------------
(* C12: the destination path *)

\* C12: the destination path of a successful run differs from the path of
\* every output an earlier run published in the directory, whenever the two
\* runs started: the run never overwrites an earlier run's output.
C12_RunsNeverCollide ==
    pc \in {"summary", "done"} => final_path \notin DOMAIN before.outputs

-----------------------------------------------------------------------------
(* C13: the required columns *)

\* the columns a run requires of the input header
RequiredColumns ==
    Range(FILTER_COLUMNS)
    \cup (IF server_filter # <<>> THEN {"src_name", "dest_name"} ELSE {})

MissingRequired == RequiredColumns \ Range(input_file.header)

\* the column names the text of an error message of the validation holds
ColumnsNamedIn(e) ==
    IF e[1] = "Missing columns" THEN Range(e[2])
    ELSE IF e[1] = "Colonne 'src_name' o 'dest_name' non trovate nel CSV"
    THEN {"src_name", "dest_name"}
    ELSE {}

ColumnError ==
    /\ pc = "failed"
    /\ error[1] \in {"Missing columns",
                     "Colonne 'src_name' o 'dest_name' non trovate nel CSV"}

\* C13: a run on a header that lacks a required column, once it has read the
\* header, fails before the counting pass with one message that names every
\* missing required column and no other column.
C13_ErrorNamesMissingColumns ==
    /\ (MissingRequired # {} => pc \notin {"write_header", "counting", "processing",
                                           "final_progress", "replace", "summary",
                                           "done"})
    /\ (ColumnError =>
            /\ pos = 0 /\ total_rows_to_process = 0
            /\ ColumnsNamedIn(error) = MissingRequired)

-----------------------------------------------------------------------------
(* C14: the output is a function of the data inputs *)

\* the surviving lines of a file, in the file's order
SurvivingLines(file, wave, servers) ==
    SelectSeq(file.lines,
              LAMBDA line : should_include_row(ReadRow(file.header, line), wave, servers,
                                               FILTER_COLUMNS, CASE_SENSITIVE))

\* the output file the input file, the two maps of the workbook and the two
\* filters determine; no clock and no earlier state occurs in it
ExpectedOutput(file, service_map, location_map, wave, servers) ==
    LET kept == SurvivingLines(file, wave, servers)
    IN  [header |-> OutputFieldnames(file.header),
         rows |-> [i \in 1..Len(kept) |->
                     WriteRow(OutputFieldnames(file.header),
                              EnrichRow(ReadRow(file.header, kept[i]),
                                        build_ip_to_service_index(service_map),
                                        build_subnet_index(location_map)))]]

\* C14: the file a successful run publishes has the header and the rows that
\* the input file, the workbook's two maps and the two filters determine,
\* whatever the clock showed during the run and whatever an earlier run of
\* the process left behind; so two runs on the same data publish the same.
C14_OutputDeterminedByData ==
    pc \in {"summary", "done"} =>
        outputs[final_path] = ExpectedOutput(before.input_file, ExampleServiceMap,
                                             ExampleLocationMap, wave_filter, server_filter)

\* C14 witness: a later run of the process, during which the clock moved,
\* published two rows, the first of an address the workbook gives a service
\* and the stale globals did not
C14_Witness ==
    /\ pc = "done" /\ now > StartClock
    /\ ServiceOf(build_ip_to_service_index(StaleServiceMap), IPText(10, 0, 0, 5)) = UNKNOWN
    /\ Len(outputs[final_path].rows) = 2
    /\ \E i \in 1..Len(fieldnames) :
            fieldnames[i] = "src_service" /\ outputs[final_path].rows[1][i] = SvcKms

-----------------------------------------------------------------------------
(* C15: the output columns *)

\* the place of a column in a header that holds it once
ColumnIndex(header, c) == CHOOSE i \in 1..Len(header) : header[i] = c

\* C15: the published header is the input header, in its order, followed by
\* those of src_service, dest_service, src_loc, dest_loc, COMMENTO the input
\* header lacks, in that order, each column once; every published row has one
\* value per column of that header, an input column the enricher does not
\* write holding the value of the input line.
C15_OutputColumns ==
    pc \in {"summary", "done"} =>
        LET out == outputs[final_path]
            h == before.input_file.header
            kept == SurvivingLines(before.input_file, wave_filter, server_filter)
        IN  /\ out.header = h \o SelectSeq(NEW_COLUMNS, LAMBDA c : c \notin Range(h))
            /\ \A i, j \in 1..Len(out.header) : out.header[i] = out.header[j] => i = j
            /\ Range(h) \cup Range(NEW_COLUMNS) = Range(out.header)
            /\ Len(out.rows) = Len(kept)
            /\ \A k \in 1..Len(out.rows) :
                    /\ Len(out.rows[k]) = Len(out.header)
                    /\ \A i \in 1..Len(h) :
                            h[i] \notin Range(NEW_COLUMNS) =>
                                out.rows[k][i] = OrEmpty(kept[k][h[i]])
                    /\ out.rows[k][ColumnIndex(out.header, "src_service")]
                            \in {UNKNOWN, SvcKms}

\* C15 witness: the input header began with COMMENTO and ended with src_loc;
\* the published header appends the three other columns, and a row was
\* published under it
C15_Witness ==
    /\ pc = "done"
    /\ before.input_file.header = <<"COMMENTO">> \o BaseHeader \o <<"src_loc">>
    /\ outputs[final_path].header =
           <<"COMMENTO">> \o BaseHeader \o <<"src_loc", "src_service", "dest_service", "dest_loc">>
    /\ Len(outputs[final_path].rows) >= 1

-----------------------------------------------------------------------------
(* C16: the order of the finalizing steps *)

\* the row loop pushes the value 100 on the last surviving row and on no
\* other, so one more 100 than that is the push of the finalizing steps
FinalPushDone ==
    Len(SelectSeq(progress, LAMBDA v : v = 100))
        > (IF total_rows_to_process > 0 /\ processed = total_rows_to_process
           THEN 1 ELSE 0)

\* the temporary file of the run has been renamed onto the destination
RenameDone == pc \in {"summary", "done"} /\ temp_files = <<>>

SummaryDone == \E i \in 1..Len(log) : log[i] = <<"Fatto! File processato">>

\* the servers the summary reports, in the order of its lines
SummaryServers ==
    LET names == SelectSeq(log, LAMBDA l : l[1] = "conteggi")
    IN  [i \in 1..Len(names) |-> names[i][2]]

\* C16: in a run, all surviving rows are in the temporary file before it is
\* renamed onto the destination, the final progress value 100 is pushed only
\* once the rename has succeeded, and the summary lines come after that push,
\* one line of counters for each filtered server name.
C16_FinalizingOrder ==
    /\ (RenameDone =>
            Len(outputs[final_path].rows) =
                Len(SurvivingLines(before.input_file, wave_filter, server_filter)))
    /\ (FinalPushDone => RenameDone)
    /\ (SummaryDone =>
            /\ FinalPushDone /\ progress[Len(progress)] = 100
            /\ Range(SummaryServers) = Range(server_filter))

-----------------------------------------------------------------------------
(* C17: the counting pass *)

\* the counting pass has logged its result (line 460)
CountingFinished == \E i \in 1..Len(log) : log[i][1] = "Righe da processare"

\* C17 as stated: from the start of the run until the counting pass has
\* finished the driver has created and written no file (there is no
\* temporary file and no header) and has mutated no row, counter or index.
C17_NothingWrittenUntilCounted ==
    ~CountingFinished =>
        /\ temp_files = <<>>
        /\ outputs = before.outputs /\ input_file = before.input_file
        /\ \A srv \in DOMAIN outbound_count :
                outbound_count[srv] = 0 /\ inbound_count[srv] = 0

\* the counting pass is running, or has just finished
InCountingPass ==
    \/ pc = "counting"
    \/ pc = "processing" /\ pos = 0 /\ processed = 0

\* C17 amended: while the counting pass runs, and when it has finished, the
\* only file of the driver is the temporary file created before the pass,
\* which holds the header written before the pass and no row; the input
\* file, the published files, the counters and the two indices are as they
\* were when the pass began.
C17_CountingOnlyReads ==
    InCountingPass =>
        /\ temp_files = << [header |-> OutputFieldnames(before.input_file.header),
                            rows |-> <<>>] >>
        /\ outputs = before.outputs /\ input_file = before.input_file
        /\ outbound_count = ZeroCounts(server_filter)
        /\ inbound_count = ZeroCounts(server_filter)
        /\ ip_to_service = build_ip_to_service_index(SERVIZIO_TO_IPS)
        /\ subnet_index = build_subnet_index(LOCATION_TO_SUBNETS)
        /\ progress = <<>>

\* C17 witness: the pass has counted two surviving rows of a file under a
\* server filter
C17_Witness ==
    /\ pc = "counting" /\ pos >= 2 /\ total_rows_to_process = 2
    /\ server_filter # <<>>

-----------------------------------------------------------------------------
(* C18: the throttle of the row loop *)

\* consecutive entries of a history of <<clock, row>> pairs, the later of
\* which is not on the final surviving row, are at least interval apart
Spaced(history, interval) ==
    \A i \in 1..(Len(history) - 1) :
        history[i + 1][2] # total_rows_to_process =>
            history[i + 1][1] - history[i][1] >= interval

\* the row lines of the log, as <<n, total>>
RowLines ==
    LET lines == SelectSeq(log, LAMBDA l : l[1] = "Row")
    IN  [i \in 1..Len(lines) |-> <<lines[i][2], lines[i][3]>>]

\* the final surviving row has been processed
FinalRowProcessed ==
    /\ pc \in {"processing", "final_progress", "replace", "summary", "done"}
    /\ total_rows_to_process > 0 /\ processed = total_rows_to_process

\* C18: with a clock that never runs backwards, consecutive progress pushes
\* of the row loop not on the final surviving row are at least 1 s apart,
\* consecutive row lines not on the final row at least 2 s apart, and the
\* final surviving row has both its push and its row line.
C18_ThrottledUpdates ==
    /\ Spaced(before.pushed, 1)
    /\ Spaced(before.logged, 2)
    /\ Len(RowLines) = Len(before.logged)
    /\ (FinalRowProcessed =>
            /\ before.pushed[Len(before.pushed)][2] = total_rows_to_process
            /\ 100 \in Range(progress)
            /\ RowLines[Len(RowLines)] = <<total_rows_to_process, total_rows_to_process>>)

\* C18 witness: three surviving rows; the first two were pushed a second
\* apart, the third, the final one, was pushed and logged within the second
\* of the second row, whose row line had been held back
C18_Witness ==
    /\ FinalRowProcessed /\ total_rows_to_process = 3
    /\ Len(before.pushed) = 3
    /\ before.pushed[2][1] - before.pushed[1][1] = 1
    /\ before.pushed[3][1] = before.pushed[2][1]
    /\ [i \in 1..Len(before.logged) |-> before.logged[i][2]] = <<1, 3>>

-----------------------------------------------------------------------------
(* C19: the normalisation of the location columns *)

\* what column col holds when the lookups are done: the location of the
\* most specific network containing the address, or else what the row came
\* with (None when it came without the column)
LookedUp(row, col, addr_col, map) ==
    IF Unresolvable(Get(row, addr_col), map) THEN Get(row, col)
    ELSE Configured(map)[MostSpecific(AddressOf(Get(row, addr_col)), map)][2]

\* C19: after enrich_row_with_locations each of src_loc and dest_loc holds
\* `Public` when its value, resolved or already present, trimmed and in lower
\* case is `risc-unknown-internet`, `Private` when it is
\* `risc-unknown-private`, and that very value otherwise.
C19_LocationNormalised ==
    (op = "enrich_row_with_locations" /\ ret # <<>>
       /\ "subnets_by_location" \in DOMAIN arg) =>
        \A cols \in {<<"src_loc", "src_addr">>, <<"dest_loc", "dest_addr">>} :
            LET v == LookedUp(arg.row, cols[1], cols[2], arg.subnets_by_location)
            IN  /\ Get(ret[1], cols[1]) =
                       (IF v = None THEN None
                        ELSE IF Lower(Strip(v)) = RISC_INTERNET THEN PUBLIC
                        ELSE IF Lower(Strip(v)) = RISC_PRIVATE THEN PRIVATE
                        ELSE v)
                /\ (cols[1] \in DOMAIN ret[1]) =
                       (cols[1] \in DOMAIN arg.row
                        \/ ~Unresolvable(Get(arg.row, cols[2]), arg.subnets_by_location))

\* C19 witness: the source column came as ` risc-unknown-internet` and left
\* as `Public`; the destination was resolved to the location
\* `RISC-Unknown-Private` and left as `Private`
C19_Witness ==
    /\ op = "enrich_row_with_locations" /\ ret # <<>>
    /\ "subnets_by_location" \in DOMAIN arg
    /\ Get(arg.row, "src_loc") = <<" ">> \o RISC_INTERNET
    /\ Unresolvable(Get(arg.row, "src_addr"), arg.subnets_by_location)
    /\ Get(ret[1], "src_loc") = PUBLIC
    /\ LookedUp(arg.row, "dest_loc", "dest_addr", arg.subnets_by_location) = LocRawPrivate
    /\ Get(ret[1], "dest_loc") = PRIVATE

-----------------------------------------------------------------------------
(* C20: what enrich_row_with_comment writes *)

\* the texts the step can write
CommentTexts == {SKIP_SHARED} \cup {PORT_COMMENTS[i][2] : i \in 1..Len(PORT_COMMENTS)}

\* C20: enrich_row_with_comment changes no column but COMMENTO, writes
\* COMMENTO only with a non-empty comment, and for a row with both services
\* `unknown` whose port matches no rule leaves COMMENTO as it was: absent if
\* it was absent, with the value it had otherwise.
C20_CommentWrittenOnlyIfAny ==
    op = "commented" =>
        /\ (DOMAIN ret[1]) \ {"COMMENTO"} = (DOMAIN arg.row) \ {"COMMENTO"}
        /\ \A c \in (DOMAIN arg.row) \ {"COMMENTO"} : ret[1][c] = arg.row[c]
        /\ \/ /\ ("COMMENTO" \in DOMAIN ret[1]) = ("COMMENTO" \in DOMAIN arg.row)
              /\ Get(ret[1], "COMMENTO") = Get(arg.row, "COMMENTO")
           \/ /\ "COMMENTO" \in DOMAIN ret[1]
              /\ ret[1].COMMENTO \in CommentTexts /\ ret[1].COMMENTO # <<>>
        /\ (BothUnknown(arg.row) /\ RulesNaming(Get(arg.row, "dest_port")) = {}) =>
              /\ ("COMMENTO" \in DOMAIN ret[1]) = ("COMMENTO" \in DOMAIN arg.row)
              /\ Get(ret[1], "COMMENTO") = Get(arg.row, "COMMENTO")

\* C20 witness: a row with both services `unknown`, port `8125` and a
\* comment of its own left the step with that comment
C20_Witness ==
    /\ op = "commented" /\ BothUnknown(arg.row)
    /\ Get(arg.row, "dest_port") = <<"8","1","2","5">>
    /\ Get(arg.row, "COMMENTO") = OldText
    /\ Get(ret[1], "COMMENTO") = OldText

-----------------------------------------------------------------------------
(* C21: the processed count against the counted total *)

\* the processing pass has ended
ProcessingEnded == pc \in {"final_progress", "replace", "summary", "done"}

\* the rows the run has written: in its temporary file, or in the file the
\* rename published
RowsWritten ==
    IF temp_files # <<>> THEN OwnTemp.rows ELSE outputs[final_path].rows

\* the row lines of the log, as <<n, total, pct>>
RowPercents ==
    LET lines == SelectSeq(log, LAMBDA l : l[1] = "Row")
    IN  [i \in 1..Len(lines) |-> <<lines[i][2], lines[i][3], lines[i][4]>>]

\* C21: while rows are processed the number processed is at most the counted
\* total; when the pass has ended the two are equal and equal the number of
\* rows written, which are the rows the filter accepts; the percentage is
\* 100 on the last surviving row and on no other.
C21_ProcessedWithinTotal ==
    /\ (pc = "processing" =>
            /\ processed <= total_rows_to_process
            /\ Len(RowsWritten) = processed)
    /\ (ProcessingEnded =>
            /\ processed = total_rows_to_process
            /\ Len(RowsWritten) = total_rows_to_process
            /\ total_rows_to_process =
                   Len(SurvivingLines(before.input_file, wave_filter, server_filter)))
    /\ \A i \in 1..Len(RowPercents) :
            /\ RowPercents[i][2] = total_rows_to_process
            /\ (RowPercents[i][3] = 100) = (RowPercents[i][1] = total_rows_to_process)
    /\ \A i \in 1..Len(before.pushed) :
            (progress[i] = 100) = (before.pushed[i][2] = total_rows_to_process)

\* C21 witness: a completed run on three lines, the second of which the
\* filter rejected: two rows counted, processed and written
C21_Witness ==
    /\ pc = "done"
    /\ Len(before.input_file.lines) = 3
    /\ ~should_include_row(ReadRow(before.input_file.header, before.input_file.lines[2]),
                           wave_filter, server_filter, FILTER_COLUMNS, CASE_SENSITIVE)
    /\ total_rows_to_process = 2 /\ processed = 2
    /\ Len(outputs[final_path].rows) = 2

-----------------------------------------------------------------------------
(* C22: one worker at a time *)

\* the workers that have not put their last message yet
ActiveWorkers == {w \in 1..Len(threads) : threads[w].at # "ended"}

\* the messages with key k among the messages worker w has put
PutWithKey(w, k) == SelectSeq(threads[w].put, LAMBDA m : m[1] = k)

\* a `done` message is still in the queue
DoneWaiting == \E i \in 1..Len(ui_queue) : ui_queue[i][1] = "done"

\* C22: at most one worker is active at a time; a worker that has ended has
\* put exactly one status message, `Completato` or `Fallito`, directly
\* followed by exactly one `done` message, its last; and the run button is
\* disabled from the start of a worker until its `done` message is drained.
C22_OneWorkerAtATime ==
    /\ Cardinality(ActiveWorkers) <= 1
    /\ \A w \in 1..Len(threads) :
          LET put == threads[w].put
              n == Len(put)
          IN  IF threads[w].at = "ended"
              THEN /\ n >= 2
                   /\ put[n] = <<"done", None>>
                   /\ put[n - 1] \in {<<"status", "Completato">>, <<"status", "Fallito">>}
                   /\ Len(PutWithKey(w, "status")) = 1
                   /\ Len(PutWithKey(w, "done")) = 1
              ELSE /\ PutWithKey(w, "done") = <<>>
                   /\ Len(PutWithKey(w, "status")) <= 1
    /\ (run_btn = "normal") = (ActiveWorkers = {} /\ ~DoneWaiting)
    /\ is_running = (run_btn = "disabled")

\* C22 witness: a first worker raised and ended, its `done` was drained, and
\* a second worker, started by a later click, is running while the button is
\* disabled
C22_Witness ==
    /\ Len(threads) = 2
    /\ threads[1].at = "ended"
    /\ <<"status", "Fallito">> \in Range(threads[1].put)
    /\ threads[2].at = "call"
    /\ run_btn = "disabled"

-----------------------------------------------------------------------------
(* C23: the output directory after a failed run *)

\* C23: a run that has failed has left the output directory with exactly
\* the files it had before the run: the published files are as they were
\* and no temporary file remains.
C23_FailedRunLeavesNoTemp ==
    pc = "failed" => outputs = before.outputs /\ temp_files = <<>>

====
